---- MODULE Spec2Model ----
(***************************************************************************)
(* The crawl loops of the three scrapers of rajmahavir/iShortcuts:         *)
(*   "advanced"  AppleShortcutsAdvancedScraper  (src/advanced_scraper.py)  *)
(*   "scraper"   AppleShortcutsGuideScraper     (src/scraper.py)           *)
(*   "simple"    SimpleAppleShortcutsScraper    (src/simple_scraper.py)    *)
(* A URL is a number, 0 being base_url.  The content of a page is the      *)
(* sequence of qualifying links that link discovery returns for it; it is  *)
(* an input, drawn when a fetch of the page succeeds.  The crawl compares  *)
(* URLs for equality only, so the site is drawn up to renaming: a URL that *)
(* no page has linked to yet gets the next unused number.  Time is counted *)
(* in seconds of time.sleep: a request itself takes no time, which is the  *)
(* least the program guarantees.                                           *)
(*                                                                         *)
(* Spec and FairSpec are the crawl.  The functions that read no state of   *)
(* the crawl have specifications of their own, each over one call with     *)
(* inputs of a finer grain: SlugSpec (slugify over texts), TitleSpec       *)
(* (extract_title over the texts of h1 and title), LinkSpec (link          *)
(* discovery over anchors whose hrefs are URLs with scheme, host and path) *)
(* and CompileSpec (the compilers and save_metadata over page collections  *)
(* with titles), FileSpec (the file name of save_section), MarkdownSpec    *)
(* (content_to_markdown over small element trees), BodySpec (content       *)
(* extraction followed by link discovery on the soup of one page),         *)
(* LevelSpec (the level extract_toc_links gives a link, over the chains of *)
(* its ancestors), TwinSpec (two runs of scrape_all_pages on sites that    *)
(* differ in the levels of their links only) and CleanSpec (clean_content  *)
(* over the same element trees as MarkdownSpec).                           *)
(***************************************************************************)
EXTENDS Integers, Sequences, FiniteSets, TLC

\* ---------------------------------------------------------------- bounds
NumUrls == 4        \* URLs of the site, base_url included
MaxLinks == 2       \* links one page holds at most
MaxSiteLinks == 4   \* links all pages of the site hold at most
MaxBudget == 3      \* largest max_pages an operator or caller passes
MaxTextLen == 4     \* characters of a text given to slugify
MaxH1Len == 2       \* characters of the text of an h1 element
MaxTitleLen == 3    \* characters of the text of a title element
MaxDocPages == 2    \* pages of a collection given to the compilers
MaxHrefSegs == 3    \* path segments of the href of an anchor
MaxLeafKids == 2    \* children of a content root before its list
MaxListItems == 3   \* items of a list
MaxAncestors == 4   \* elements between a navigation link and the document
NumTwinUrls == 3    \* URLs of the site two crawls are compared on
MaxTwinLinks == 3   \* links the pages of that site hold at most
MaxLevel == 1       \* deepest level of a link of that site

\* ------------------------------------------------------ program constants
DefaultMaxPagesAdvanced == 200    \* scrape_all_pages(self, max_pages=200)
DefaultMaxPagesSimple == 100      \* scrape(self, max_pages=100)
DefaultMaxRetries == 3            \* fetch_page(self, url, max_retries=3)
RateLimitDelay == 1               \* time.sleep(1) at the end of an iteration
SeleniumSettle == 2               \* time.sleep(2) in fetch_page_selenium

Urls == 0 .. (NumUrls - 1)
base_url == 0

RECURSIVE SeqsUpTo(_, _)
SeqsUpTo(S, n) ==
    IF n = 0 THEN {<<>>}
    ELSE LET shorter == SeqsUpTo(S, n - 1)
         IN  shorter \cup {Append(s, x) : s \in {t \in shorter : Len(t) = n - 1}, x \in S}

\* What link discovery can return for one page.
LinkLists == SeqsUpTo(Urls, MaxLinks)

VARIABLES
    variant,        \* which scraper runs
    entry,          \* "main": run() as the script does; "call": the crawl function called with max_pages
    arg,            \* --max-pages of main (advanced), or the max_pages argument of the call
    pc,             \* position of the program
    max_pages,      \* the parameter max_pages of the crawl function
    to_visit,       \* the frontier
    visited,        \* navigator.visited / visited_urls / visited
    pages,          \* self.pages
    page_count,     \* page_count / page_index / count
    url,            \* the URL of the dequeued task
    attempt,        \* attempts that failed in the running call of fetch_page
    html,           \* the page just fetched: its links and the kind of its markup
    dist,           \* length of the shortest link path found from base_url, per URL
    fetch_calls,    \* how often fetch_page was called, per URL
    fetched_ok,     \* URLs some fetch of which succeeded
    gap,            \* seconds slept since the start of the last request
    outputs,        \* documents the compilers have written
    exit_code,      \* status the process ends with
    site_links,     \* links on the pages fetched so far
    waited,         \* seconds the running call of fetch_page slept between its attempts
    run_state       \* "Idle", "Running", "Completed", "Aborted" or "Failed"

\* The state of a crawl.
crawlvars == <<variant, entry, arg, pc, max_pages, to_visit, visited, pages, page_count,
               url, attempt, html, dist, fetch_calls, fetched_ok, gap, outputs, exit_code,
               run_state, site_links, waited>>

\* The functions of the scrapers that read no state of the crawl are analysed
\* one call at a time, each in a specification of its own: these variables
\* hold the argument and the result of the call.
VARIABLES
    text,           \* the argument of slugify
    slug,           \* what slugify returned
    soup,           \* the argument of extract_title: the texts of the first h1 and of the title tag
    title,          \* what extract_title returned
    docs,           \* the compilers' documents: table of contents and sections of each
    current_url,    \* the URL of the page given to link discovery
    anchor,         \* an anchor of that page: where it stands, its href, and whether
                    \* the URL it resolves to is in the visited set
    new_links,      \* what link discovery returned for the anchor
    requested,      \* the URL that fetch_page then requests
    filename,       \* the name save_section / save_page gave the file of a page
    metadata,       \* what save_metadata wrote
    main_content,   \* the argument of content_to_markdown: the children of the content root
    md,             \* what content_to_markdown returned, block by block
    tree,           \* the parsed page of one iteration: where its anchor stands, whether
                    \* extract_main_content has run and whether the anchor is still there
    ancestors,      \* the elements around a link of a navigation container, innermost
                    \* first, and which of them is the container
    link_level,     \* the level extract_toc_links gave that link
    levelled,       \* a crawl whose tasks carry their levels: to_visit, visited, pages,
                    \* page_count, max_pages, the URLs fetched, the links discovered
    plain           \* the crawl of the same site with every link at level 0

slugvars == <<text, slug>>
titlevars == <<soup, title>>
linkvars == <<current_url, anchor, new_links, requested>>
filevars == <<filename, metadata>>
mdvars == <<main_content, md>>
levelvars == <<ancestors, link_level>>
twinvars == <<levelled, plain>>
fnvars == <<slugvars, titlevars, docs, linkvars, filevars, mdvars, tree, levelvars, twinvars>>

vars == <<crawlvars, fnvars>>

\* ------------------------------------------------------------ helpers
Range(s) == {s[i] : i \in 1 .. Len(s)}

\* What the markup of a response can be: "rootless" markup has no element
\* that the content selectors match and no body; "blank" markup has a content
\* root without a content block; "blocks" markup has a root with blocks.  (A
\* response with an empty body is the step AttemptEmpty.)  The Selenium
\* fetch of scraper.py returns only once a main element is present.
Markups(v, k) ==
    IF v = "scraper" /\ k = 1 THEN {"blank", "blocks"} ELSE {"rootless", "blank", "blocks"}

NoPage == [nav |-> <<>>, content |-> <<>>, markup |-> "none"]

\* The local html after fetch_page returned the empty string.
EmptyPage == [NoPage EXCEPT !.markup = "empty"]

\* What is left of the local html once the iteration has used it.
Used(m) == [NoPage EXCEPT !.markup = m]

\* The pages of scraper.py: every list of links, split at every place into
\* the links of the navigation containers and those of main.
SplitPages ==
    {[nav |-> SubSeq(c[1], 1, c[2]), content |-> SubSeq(c[1], c[2] + 1, Len(c[1])),
      markup |-> "unread"] :
        c \in {d \in LinkLists \X (0 .. MaxLinks) : d[2] <= Len(d[1])}}

\* The pages of the other two: every list of links, unsplit.
PlainPages == {[nav |-> l, content |-> <<>>, markup |-> "unread"] : l \in LinkLists}

\* The pages a fetch can return: the links inside navigation containers, in
\* document order, then the other qualifying links ("next" links for the
\* advanced scraper, links inside main for scraper.py).  Only scraper.py
\* treats the two groups differently, so the split is drawn for it alone.
\* The kind of the markup is drawn by the step that reads it.
PagesFor(v) == IF v = "scraper" THEN SplitPages ELSE PlainPages

AllLinks(page) == page.nav \o page.content

\* dist of a URL no fetched page links to.
Unreached == NumUrls

\* The URLs some fetched page links to, and base_url: 0 .. Named(d) - 1.
Named(d) == Cardinality({u \in Urls : d[u] < Unreached})

\* The links l introduce new URLs in the order of their numbers, n being the
\* next unused number.
RECURSIVE InNamingOrder(_, _)
InNamingOrder(l, n) ==
    IF l = <<>> THEN TRUE
    ELSE /\ Head(l) <= n
         /\ InNamingOrder(Tail(l), IF Head(l) = n THEN n + 1 ELSE n)

\* dist after the links l of a page at distance k are known.
Relax(d, l, k) ==
    [u \in Urls |-> IF u \in Range(l) /\ k + 1 < d[u] THEN k + 1 ELSE d[u]]

\* AppleDocsNavigator.extract_toc_links: every link not yet visited, in order.
extract_toc_links(page, vis) ==
    SelectSeq(AllLinks(page), LAMBDA l : l \notin vis)

\* SimpleAppleShortcutsScraper.extract_links: the same filter over every anchor.
extract_links(page, vis) ==
    SelectSeq(AllLinks(page), LAMBDA l : l \notin vis)

\* AppleShortcutsGuideScraper.extract_navigation_links: navigation links not
\* yet visited, then the links of main that are neither visited nor already
\* in the result.
RECURSIVE AddContentLinks(_, _, _)
AddContentLinks(links, content, vis) ==
    IF content = <<>> THEN links
    ELSE LET l == Head(content)
         IN  AddContentLinks(
                 IF l \notin vis /\ l \notin Range(links) THEN Append(links, l) ELSE links,
                 Tail(content), vis)

extract_navigation_links(page, vis) ==
    AddContentLinks(SelectSeq(page.nav, LAMBDA l : l \notin vis), page.content, vis)

\* The links appended to to_visit after a page is accepted.
NewTasks(v, page, vis) ==
    IF v = "advanced" THEN SelectSeq(extract_toc_links(page, vis), LAMBDA l : l \notin vis)
    ELSE IF v = "scraper" THEN SelectSeq(extract_navigation_links(page, vis), LAMBDA l : l \notin vis)
    ELSE extract_links(page, vis)

\* The record appended to self.pages.
PageRecord(v, idx, u) ==
    IF v = "simple" THEN [url |-> u] ELSE [index |-> idx, url |-> u]

\* (mutant) The retry loop runs once more than max_retries.
MaxAttemptsOneMore(v) ==
    IF v = "advanced" THEN DefaultMaxRetries + 1 ELSE IF v = "scraper" THEN 2 ELSE 1


\* (mutant) fetch_page of scraper.py tries Selenium a second time.
MaxAttemptsTwoFallbacks(v) ==
    IF v = "advanced" THEN DefaultMaxRetries ELSE IF v = "scraper" THEN 3 ELSE 1


\* Requests one call of fetch_page makes at most: max_retries attempts in
\* advanced_scraper.py, requests then Selenium in scraper.py, one in
\* simple_scraper.py.
MaxAttempts(v) ==
    IF v = "advanced" THEN DefaultMaxRetries ELSE IF v = "scraper" THEN 2 ELSE 1

RECURSIVE Pow2(_)
Pow2(n) == IF n = 0 THEN 1 ELSE 2 * Pow2(n - 1)

\* (mutant) The backoff starts at two seconds.
BackoffFromTwo(v, k) == IF v = "advanced" THEN Pow2(k + 1) ELSE 0


\* time.sleep(2 ** attempt) between two attempts of advanced_scraper.py;
\* scraper.py falls back to Selenium at once.
Backoff(v, k) == IF v = "advanced" THEN Pow2(k) ELSE 0

\* (mutant) The budget test lets one page too many through.
LoopConditionInclusive ==
    IF variant = "scraper" THEN to_visit # <<>>
    ELSE to_visit # <<>> /\ page_count <= max_pages

\* The condition of the while loop.
LoopCondition ==
    IF variant = "scraper" THEN to_visit # <<>>
    ELSE to_visit # <<>> /\ page_count < max_pages

\* The max_pages the crawl function runs with; scrape_guide has no such
\* parameter and max_pages stays 0, unused.
BudgetOf(v, e, a) ==
    IF v = "scraper" THEN 0
    ELSE IF e = "call" THEN a
    ELSE IF v = "advanced" THEN DefaultMaxPagesAdvanced
    ELSE DefaultMaxPagesSimple

\* The values of --max-pages the operator tries.
CliBudgets == {1, MaxBudget}

\* A text is a sequence of characters.  NoText stands for None.
NoText == <<"none">>

\* No function call is under analysis.
SlugIdle == text = NoText /\ slug = NoText
TitleIdle == soup = [h1 |-> NoText, title |-> NoText] /\ title = NoText

\* A document that is not written.
NoDoc == [toc |-> <<>>, sections |-> <<>>]
DocsIdle == docs = [markdown |-> NoDoc, html |-> NoDoc]

\* A URL is its scheme, its host and the segments of its path; an empty last
\* segment is a trailing slash.  NoUrl stands for None.
NoUrl == [scheme |-> "", host |-> "", path |-> <<>>]
NoHref == [kind |-> "relative", scheme |-> "", host |-> "", path |-> <<>>]
NoLinks == <<NoUrl>>
LinkIdle ==
    /\ current_url = NoUrl
    /\ anchor = [place |-> "other", href |-> NoHref, seen |-> FALSE]
    /\ new_links = NoLinks
    /\ requested = NoUrl

\* No file of a page and no metadata has been written.
NoFile == [index |-> <<>>, stem |-> NoText]
NoMetadata == [base_url |-> base_url, total_pages |-> -1, pages |-> <<>>]
FileIdle == filename = NoFile /\ metadata = NoMetadata

\* content_to_markdown has not been called.
NoContent == <<[tag |-> "none", text |-> <<>>, kids |-> <<>>]>>
NoMd == <<[kind |-> "none", level |-> 0, ordinal |-> 0, text |-> <<>>]>>
MdIdle == main_content = NoContent /\ md = NoMd

\* No page has been parsed.
NoTree == [in_root |-> FALSE, unwanted |-> FALSE, step |-> "none", present |-> FALSE]
TreeIdle == tree = NoTree

\* extract_toc_links has not looked at a link.
NoChain == [chain |-> <<>>, container |-> 0]
LevelIdle == ancestors = NoChain /\ link_level = -1

\* No pair of crawls runs.
NoRun ==
    [to_visit |-> <<>>, visited |-> {}, pages |-> <<>>, page_count |-> -1,
     fetched |-> <<>>, discovered |-> 0, max_pages |-> 0]
TwinIdle == levelled = NoRun /\ plain = NoRun

FnIdle ==
    /\ SlugIdle /\ TitleIdle /\ DocsIdle /\ LinkIdle /\ FileIdle /\ MdIdle /\ TreeIdle
    /\ LevelIdle /\ TwinIdle

\* ------------------------------------------------------------ behaviour
\* The state of a crawl after construction of the scraper.
CrawlInit ==
    /\ variant \in {"advanced", "scraper", "simple"}
    /\ entry \in {"main", "call"}
    /\ arg \in IF entry = "call" THEN 0 .. MaxBudget
               ELSE IF variant = "advanced" THEN CliBudgets ELSE {0}
    /\ variant = "scraper" => entry = "main"
    /\ pc = "start"
    /\ max_pages = 0
    /\ to_visit = <<>>
    /\ visited = {}
    /\ pages = <<>>
    /\ page_count = 0
    /\ url = base_url
    /\ attempt = 0
    /\ html = NoPage
    /\ dist = [u \in Urls |-> IF u = base_url THEN 0 ELSE Unreached]
    /\ fetch_calls = [u \in Urls |-> 0]
    /\ fetched_ok = {}
    /\ gap = RateLimitDelay
    /\ outputs = {}
    /\ exit_code = 0
    /\ run_state = "Idle"
    /\ site_links = 0
    /\ waited = 0

Init == CrawlInit /\ FnIdle

\* No crawl runs: the scraper has just been constructed.
CrawlIdle == CrawlInit /\ variant = "advanced" /\ entry = "main" /\ arg = 1

\* scrape_all_pages / scrape_guide / scrape is entered.
StartScrape ==
    /\ pc = "start"
    /\ pc' = "loop"
    /\ max_pages' = BudgetOf(variant, entry, arg)
    /\ to_visit' = <<base_url>>
    /\ page_count' = 0
    /\ run_state' = "Running"
    /\ UNCHANGED fnvars
    /\ UNCHANGED <<variant, entry, arg, visited, pages, url, attempt, html, dist,
                   fetch_calls, fetched_ok, gap, outputs, exit_code, site_links, waited>>

\* (mutant) The head of the frontier is read but not removed before continue.
DequeueSkipNoPop ==
    /\ pc = "loop"
    /\ LoopCondition
    /\ Head(to_visit) \in visited
    /\ url' = Head(to_visit)
    /\ html' = NoPage
    /\ UNCHANGED fnvars
    /\ UNCHANGED <<variant, entry, arg, pc, max_pages, to_visit, visited, pages,
                   page_count, attempt, dist, fetch_calls, fetched_ok, gap,
                   outputs, exit_code, run_state, site_links, waited>>

\* The dequeued URL is already visited: continue.
DequeueSkip ==
    /\ pc = "loop"
    /\ LoopCondition
    /\ Head(to_visit) \in visited
    /\ url' = Head(to_visit)
    /\ to_visit' = Tail(to_visit)
    /\ html' = NoPage
    /\ UNCHANGED fnvars
    /\ UNCHANGED <<variant, entry, arg, pc, max_pages, visited, pages, page_count,
                   attempt, dist, fetch_calls, fetched_ok, gap, outputs,
                   exit_code, run_state, site_links, waited>>

\* The dequeued URL is not visited: fetch_page is called.
Dequeue ==
    /\ pc = "loop"
    /\ LoopCondition
    /\ Head(to_visit) \notin visited
    /\ url' = Head(to_visit)
    /\ to_visit' = Tail(to_visit)
    /\ fetch_calls' = [fetch_calls EXCEPT ![Head(to_visit)] = @ + 1]
    /\ attempt' = 0
    /\ html' = NoPage
    /\ pc' = "fetch"
    /\ UNCHANGED fnvars
    /\ UNCHANGED <<variant, entry, arg, max_pages, visited, pages, page_count,
                   dist, fetched_ok, gap, outputs, exit_code, run_state, site_links, waited>>

\* One attempt of fetch_page succeeds; the page it returns is an input.
\* (The delay inside fetch_page_selenium precedes the reading of the page.)
AttemptOk ==
    /\ pc = "fetch"
    /\ \E page \in PagesFor(variant) :
          /\ InNamingOrder(AllLinks(page), Named(dist))
          /\ html' = page
          /\ site_links + Len(AllLinks(page)) <= MaxSiteLinks
          /\ site_links' = site_links + Len(AllLinks(page))
    /\ fetched_ok' = fetched_ok \cup {url}
    /\ gap' = IF variant = "scraper" /\ attempt = 1 THEN SeleniumSettle ELSE 0
    /\ pc' = "accept"
    /\ waited' = 0
    /\ UNCHANGED fnvars
    /\ UNCHANGED <<variant, entry, arg, max_pages, to_visit, visited, pages, page_count,
                   url, attempt, dist, fetch_calls, outputs, exit_code, run_state>>

\* One attempt gets a response with an empty body.  fetch_page of
\* advanced_scraper.py and simple_scraper.py returns the empty string, which
\* the loop takes for a failure: continue.  fetch_page of scraper.py falls
\* back to Selenium, whose page source is not empty.
AttemptEmpty ==
    /\ pc = "fetch"
    /\ variant = "scraper" => attempt = 0
    /\ attempt' = IF variant = "scraper" THEN 1 ELSE 0
    /\ html' = IF variant = "scraper" THEN html ELSE EmptyPage
    /\ pc' = IF variant = "scraper" THEN "fetch" ELSE "loop"
    /\ gap' = 0
    /\ waited' = IF variant = "scraper" THEN waited ELSE 0
    /\ UNCHANGED fnvars
    /\ UNCHANGED <<variant, entry, arg, max_pages, to_visit, visited, pages, page_count,
                   url, dist, fetch_calls, fetched_ok, outputs, exit_code, run_state,
                   site_links>>

\* One attempt of fetch_page fails and another follows, after the backoff.
AttemptRetry ==
    /\ pc = "fetch"
    /\ attempt + 1 < MaxAttempts(variant)
    /\ attempt' = attempt + 1
    /\ gap' = Backoff(variant, attempt)
    /\ waited' = waited + Backoff(variant, attempt)
    /\ UNCHANGED fnvars
    /\ UNCHANGED <<variant, entry, arg, pc, max_pages, to_visit, visited, pages,
                   page_count, url, html, dist, fetch_calls, fetched_ok, outputs,
                   exit_code, run_state, site_links>>

\* (mutant) A failed fetch is counted as a page.
FetchFailedCounted ==
    /\ pc = "fetch"
    /\ attempt + 1 = MaxAttempts(variant)
    /\ gap' = 0
    /\ page_count' = page_count + 1
    /\ pc' = "loop"
    /\ attempt' = 0
    /\ waited' = 0
    /\ UNCHANGED fnvars
    /\ UNCHANGED <<variant, entry, arg, max_pages, to_visit, visited, pages, url,
                   html, dist, fetch_calls, fetched_ok, outputs, exit_code,
                   run_state, site_links>>

\* (mutant) A URL whose fetch failed is marked visited all the same.
FetchFailedMarked ==
    /\ pc = "fetch"
    /\ attempt + 1 = MaxAttempts(variant)
    /\ visited' = visited \cup {url}
    /\ gap' = 0
    /\ attempt' = 0
    /\ pc' = "loop"
    /\ waited' = 0
    /\ UNCHANGED fnvars
    /\ UNCHANGED <<variant, entry, arg, max_pages, to_visit, pages, page_count,
                   url, html, dist, fetch_calls, fetched_ok, outputs,
                   exit_code, run_state, site_links>>


\* The last attempt fails: fetch_page returns None and the loop continues.
FetchFailed ==
    /\ pc = "fetch"
    /\ attempt + 1 = MaxAttempts(variant)
    /\ gap' = 0
    /\ attempt' = 0
    /\ pc' = "loop"
    /\ waited' = 0
    /\ UNCHANGED fnvars
    /\ UNCHANGED <<variant, entry, arg, max_pages, to_visit, visited, pages, page_count,
                   url, html, dist, fetch_calls, fetched_ok, outputs,
                   exit_code, run_state, site_links>>

\* (mutant) A page without content blocks is not appended.
AcceptSkipBlank ==
    /\ pc = "accept"
    /\ \E m \in Markups(variant, attempt) :
          /\ variant # "simple" => m # "rootless"
          /\ html' = Used(m)
          /\ pages' = IF m = "blocks"
                      THEN Append(pages, PageRecord(variant, page_count, url))
                      ELSE pages
    /\ visited' = visited \cup {url}
    /\ to_visit' = to_visit \o NewTasks(variant, html, visited')
    /\ page_count' = page_count + 1
    /\ gap' = gap + RateLimitDelay
    /\ dist' = Relax(dist, AllLinks(html), dist[url])
    /\ attempt' = 0
    /\ pc' = "loop"
    /\ UNCHANGED fnvars
    /\ UNCHANGED <<variant, entry, arg, max_pages, url, fetch_calls,
                   fetched_ok, outputs, exit_code, run_state, site_links, waited>>


\* (mutant) The accepted URL is not added to the visited set.
AcceptUnmarked ==
    /\ pc = "accept"
    /\ \E m \in Markups(variant, attempt) :
          /\ variant # "simple" => m # "rootless"
          /\ html' = Used(m)
    /\ visited' = visited
    /\ pages' = Append(pages, PageRecord(variant, page_count, url))
    /\ to_visit' = to_visit \o NewTasks(variant, html, visited')
    /\ page_count' = page_count + 1
    /\ gap' = gap + RateLimitDelay
    /\ dist' = Relax(dist, AllLinks(html), dist[url])
    /\ attempt' = 0
    /\ pc' = "loop"
    /\ UNCHANGED fnvars
    /\ UNCHANGED <<variant, entry, arg, max_pages, url, fetch_calls,
                   fetched_ok, outputs, exit_code, run_state, site_links, waited>>


\* (mutant) The discovered links go to the head of the frontier.
AcceptDepthFirst ==
    /\ pc = "accept"
    /\ \E m \in Markups(variant, attempt) :
          /\ variant # "simple" => m # "rootless"
          /\ html' = Used(m)
    /\ visited' = visited \cup {url}
    /\ pages' = Append(pages, PageRecord(variant, page_count, url))
    /\ to_visit' = NewTasks(variant, html, visited') \o to_visit
    /\ page_count' = page_count + 1
    /\ gap' = gap + RateLimitDelay
    /\ dist' = Relax(dist, AllLinks(html), dist[url])
    /\ attempt' = 0
    /\ pc' = "loop"
    /\ UNCHANGED fnvars
    /\ UNCHANGED <<variant, entry, arg, max_pages, url, fetch_calls,
                   fetched_ok, outputs, exit_code, run_state, site_links, waited>>

\* The rest of the iteration after a successful fetch: mark, append the
\* page, enqueue the discovered links, count, sleep.  Content extraction finds
\* a root, with or without blocks; only clean_content of simple_scraper.py
\* copes with markup that has none.
Accept ==
    /\ pc = "accept"
    /\ \E m \in Markups(variant, attempt) :
          /\ variant # "simple" => m # "rootless"
          /\ html' = Used(m)
    /\ visited' = visited \cup {url}
    /\ pages' = Append(pages, PageRecord(variant, page_count, url))
    /\ to_visit' = to_visit \o NewTasks(variant, html, visited')
    /\ page_count' = page_count + 1
    /\ gap' = gap + RateLimitDelay
    /\ dist' = Relax(dist, AllLinks(html), dist[url])
    /\ attempt' = 0
    /\ pc' = "loop"
    /\ UNCHANGED fnvars
    /\ UNCHANGED <<variant, entry, arg, max_pages, url, fetch_calls,
                   fetched_ok, outputs, exit_code, run_state, site_links, waited>>

\* The exit status after run() caught an exception other than
\* KeyboardInterrupt: sys.exit(1) in advanced_scraper.py, a message only in
\* the other two.
CrashExit(v, e) == IF v = "advanced" /\ e = "main" THEN 1 ELSE 0

\* extract_main_content finds no content root, soup.find('body') is None and
\* content.select raises AttributeError, after the URL was marked visited.
\* The exception unwinds the crawl function; run() catches it and compiles
\* nothing.  (clean_content of simple_scraper.py returns "" instead.)
ExtractCrash ==
    /\ pc = "accept"
    /\ variant # "simple" /\ "rootless" \in Markups(variant, attempt)
    /\ visited' = visited \cup {url}
    /\ run_state' = "Failed"
    /\ exit_code' = CrashExit(variant, entry)
    /\ pc' = "done"
    /\ to_visit' = <<>>
    /\ page_count' = 0
    /\ url' = base_url
    /\ attempt' = 0
    /\ html' = NoPage
    /\ UNCHANGED fnvars
    /\ UNCHANGED <<variant, entry, arg, max_pages, pages, dist, fetch_calls,
                   fetched_ok, gap, outputs, site_links, waited>>

\* The while condition is false: the crawl function returns, and its local
\* variables are gone.
LoopExit ==
    /\ pc = "loop"
    /\ ~LoopCondition
    /\ pc' = IF entry = "main" THEN "scraped" ELSE "done"
    /\ run_state' = IF entry = "main" THEN run_state ELSE "Completed"
    /\ to_visit' = <<>>
    /\ page_count' = 0
    /\ url' = base_url
    /\ attempt' = 0
    /\ html' = NoPage
    /\ UNCHANGED fnvars
    /\ UNCHANGED <<variant, entry, arg, max_pages, visited, pages, dist,
                   fetch_calls, fetched_ok, gap, outputs, exit_code, site_links, waited>>

\* (mutant) A failure of compile_pdf ends run() before save_metadata.
CompiledPdfFatal(v, n) ==
    IF v = "advanced"
    THEN IF n = 0 THEN {{}}
         ELSE {{"markdown", "html"}, {"markdown", "html", "pdf", "metadata"}}
    ELSE IF v = "scraper"
    THEN {{"markdown"}, {"markdown", "pdf", "metadata"}}
    ELSE {{"markdown"}}


\* What run() writes after the crawl returned.  compile_pdf catches its own
\* failures, so the PDF may be missing.
Compiled(v, n) ==
    IF v = "advanced"
    THEN IF n = 0 THEN {{}}
         ELSE {{"markdown", "html", "metadata"}, {"markdown", "html", "pdf", "metadata"}}
    ELSE IF v = "scraper"
    THEN {{"markdown", "metadata"}, {"markdown", "pdf", "metadata"}}
    ELSE {{"markdown"}}

RunCompile ==
    /\ pc = "scraped"
    /\ outputs' \in Compiled(variant, Len(pages))
    /\ pc' = "done"
    /\ run_state' = "Completed"
    /\ UNCHANGED fnvars
    /\ UNCHANGED <<variant, entry, arg, max_pages, to_visit, visited, pages, page_count,
                   url, attempt, html, dist, fetch_calls, fetched_ok, gap, exit_code, site_links,
                   waited>>

\* The exit status after run() caught KeyboardInterrupt: sys.exit(1) in
\* advanced_scraper.py, a message only in the other two.
InterruptExit(v, e) == IF v = "advanced" /\ e = "main" THEN 1 ELSE 0

\* KeyboardInterrupt is raised while the crawl loop runs and unwinds the
\* crawl function.  run() catches it and compiles nothing; a direct caller
\* gets the exception.
Interrupt ==
    /\ pc \in {"loop", "fetch", "accept"}
    /\ run_state' = "Aborted"
    /\ exit_code' = InterruptExit(variant, entry)
    /\ pc' = "done"
    /\ to_visit' = <<>>
    /\ page_count' = 0
    /\ url' = base_url
    /\ attempt' = 0
    /\ html' = NoPage
    /\ waited' = 0
    /\ UNCHANGED fnvars
    /\ UNCHANGED <<variant, entry, arg, max_pages, visited, pages, dist, fetch_calls,
                   fetched_ok, gap, outputs, site_links>>

Crawl ==
    \/ StartScrape
    \/ DequeueSkip
    \/ Dequeue
    \/ AttemptOk
    \/ AttemptEmpty
    \/ AttemptRetry
    \/ FetchFailed
    \/ Accept
    \/ ExtractCrash
    \/ LoopExit
    \/ RunCompile

Next == Crawl \/ Interrupt

Spec == Init /\ [][Next]_vars

\* The interpreter always takes the next step of the program; an interrupt
\* may or may not come.
FairSpec == Spec /\ WF_vars(Crawl)

\* ------------------------------------------------------------ slugify
\* The characters of the texts: an upper-case letter, a lower-case letter, a
\* digit, a blank, the hyphen, the underscore and a punctuation mark.
Chars == {"A", "a", "1", " ", "-", "_", "!"}

Texts == SeqsUpTo(Chars, MaxTextLen)

\* str.lower, character by character.
lower(t) == [i \in 1 .. Len(t) |-> IF t[i] = "A" THEN "a" ELSE t[i]]

\* The classes \w and \s of the module re.
IsWord(c) == c \in {"A", "a", "1", "_"}
IsSpace(c) == c = " "

\* re.sub(r'[^\w\s-]', '', text)
DropOthers(t) == SelectSeq(t, LAMBDA c : IsWord(c) \/ IsSpace(c) \/ c = "-")

\* re.sub(r'[-\s]+', '-', text)
RECURSIVE JoinRuns(_)
JoinRuns(t) ==
    IF t = <<>> THEN <<>>
    ELSE IF Head(t) = "-" \/ IsSpace(Head(t))
    THEN LET rest == JoinRuns(Tail(t))
         IN  IF rest # <<>> /\ Head(rest) = "-" THEN rest ELSE <<"-">> \o rest
    ELSE <<Head(t)>> \o JoinRuns(Tail(t))

\* str.strip('-')
RECURSIVE StripHyphens(_)
StripHyphens(t) ==
    IF t = <<>> THEN <<>>
    ELSE IF Head(t) = "-" THEN StripHyphens(Tail(t))
    ELSE IF t[Len(t)] = "-" THEN StripHyphens(SubSeq(t, 1, Len(t) - 1))
    ELSE t

\* (mutant) The hyphens are stripped before the runs are joined.
slugifyStripFirst(t) == JoinRuns(StripHyphens(DropOthers(lower(t))))

\* (mutant) The result is not stripped.
slugifyUnstripped(t) == JoinRuns(DropOthers(lower(t)))

\* slugify of the three scrapers, the same code in each.
slugify(t) == StripHyphens(JoinRuns(DropOthers(lower(t))))

\* safe_title[:50] in save_section and save_page
FileStemMax == 50

\* t[:n]
Take(t, n) == SubSeq(t, 1, IF Len(t) < n THEN Len(t) ELSE n)

\* f"{index:03d}", for an index below 1000: its three digits
Pad3(i) == <<i \div 100, (i \div 10) % 10, i % 10>>

\* safe_title of save_section and save_page: the two substitutions of
\* slugify, without lower() before them and without strip('-') after them.
safe_title(t) == JoinRuns(DropOthers(t))

\* The file name of save_section (advanced_scraper.py) and of save_page
\* (scraper.py), without the hyphen between its two parts and the ".md".
save_section(index, t) == [index |-> Pad3(index), stem |-> Take(safe_title(t), FileStemMax)]


\* slugify is called with some text.
SlugInit ==
    /\ CrawlIdle
    /\ TitleIdle /\ DocsIdle /\ LinkIdle
    /\ FileIdle /\ MdIdle /\ TreeIdle
    /\ LevelIdle /\ TwinIdle
    /\ text \in Texts
    /\ slug = NoText

\* The call returns.
Slugify ==
    /\ text # NoText /\ slug = NoText
    /\ slug' = slugify(text)
    /\ UNCHANGED <<crawlvars, text, titlevars, docs, linkvars, filevars, mdvars, tree,
                   levelvars, twinvars>>

\* slugify is called again, with what it returned.
SlugifyAgain ==
    /\ slug # NoText /\ slug # text
    /\ text' = slug
    /\ slug' = NoText
    /\ UNCHANGED <<crawlvars, titlevars, docs, linkvars, filevars, mdvars, tree,
                   levelvars, twinvars>>

SlugNext == Slugify \/ SlugifyAgain

SlugSpec == SlugInit /\ [][SlugNext]_vars


\* The loop saves the file of the page it has just appended; its title is
\* text and its index is one of the first of a crawl.
SaveSection ==
    /\ text # NoText /\ filename = NoFile
    /\ \E index \in 0 .. MaxDocPages : filename' = save_section(index, text)
    /\ UNCHANGED <<crawlvars, slugvars, titlevars, docs, linkvars, metadata, mdvars, tree,
                   levelvars, twinvars>>

FileNext == Slugify \/ SaveSection

\* One title, given to slugify and to save_section.
FileSpec == SlugInit /\ [][FileNext]_vars


\* ------------------------------------------------------------ extract_title
\* The characters of the texts of h1 and title elements: a letter, a blank,
\* the hyphen and the em-dash.
EmDash == "em-dash"

TitleChars == {"a", " ", "-", EmDash}

\* What soup.find('h1') and soup.find('title') can hold; NoText: no such
\* element.
H1Texts == SeqsUpTo({"a", " "}, MaxH1Len) \cup {NoText}
TitleTexts == SeqsUpTo(TitleChars, MaxTitleLen) \cup {NoText}

\* str.strip(), and get_text(strip=True) of an element with one string.
RECURSIVE strip(_)
strip(t) ==
    IF t = <<>> THEN <<>>
    ELSE IF IsSpace(Head(t)) THEN strip(Tail(t))
    ELSE IF IsSpace(t[Len(t)]) THEN strip(SubSeq(t, 1, Len(t) - 1))
    ELSE t

\* t.split(c)[0]
RECURSIVE SplitHead(_, _)
SplitHead(t, c) ==
    IF t = <<>> \/ Head(t) = c THEN <<>>
    ELSE <<Head(t)>> \o SplitHead(Tail(t), c)

Untitled == <<"U", "n", "t", "i", "t", "l", "e", "d">>

\* (mutant) The literal fallback is missing.
extract_titleNoFallback(sp) ==
    LET fromH1 == IF sp.h1 # NoText THEN strip(sp.h1) ELSE <<>>
        fromTag == IF sp.title # NoText
                   THEN strip(SplitHead(SplitHead(strip(sp.title), EmDash), "-"))
                   ELSE <<>>
    IN  IF fromH1 # <<>> THEN fromH1 ELSE fromTag

\* AppleShortcutsAdvancedScraper.extract_title
extract_title(sp) ==
    LET fromH1 == IF sp.h1 # NoText THEN strip(sp.h1) ELSE <<>>
        fromTag == IF sp.title # NoText
                   THEN strip(SplitHead(SplitHead(strip(sp.title), EmDash), "-"))
                   ELSE <<>>
        found == IF fromH1 # <<>> THEN fromH1 ELSE fromTag
    IN  IF found # <<>> THEN found ELSE Untitled

\* extract_title is called with some soup.
TitleInit ==
    /\ CrawlIdle
    /\ SlugIdle /\ DocsIdle /\ LinkIdle
    /\ FileIdle /\ MdIdle /\ TreeIdle
    /\ LevelIdle /\ TwinIdle
    /\ soup \in [h1 : H1Texts, title : TitleTexts]
    /\ title = NoText

\* The call returns.
ExtractTitle ==
    /\ title = NoText
    /\ title' = extract_title(soup)
    /\ UNCHANGED <<crawlvars, slugvars, soup, docs, linkvars, filevars, mdvars, tree,
                   levelvars, twinvars>>

TitleSpec == TitleInit /\ [][ExtractTitle]_vars


\* ------------------------------------------------------------ compilers
\* Titles of the pages given to the compilers: two that differ in case only,
\* two that differ in the separator, one without a word character.
DocTitles == {<<"A">>, <<"a">>, <<"a", " ", "1">>, <<"a", "_", "1">>, <<"!">>}

\* A record of self.pages as the crawl of scraper v leaves it: b is 0 for a
\* page without content blocks.
DocPage(v, i, t, l, b) ==
    IF v = "simple" THEN [url |-> i, title |-> t, blocks |-> b]
    ELSE [index |-> i, url |-> i, title |-> t, level |-> l, blocks |-> b]

PageCollections(v) ==
    {[i \in 1 .. Len(c) |-> DocPage(v, i - 1, c[i][1], c[i][2], c[i][3])] :
        c \in SeqsUpTo(DocTitles \X {0, 1} \X {0, 1}, MaxDocPages)}

\* compile_markdown of advanced_scraper.py and of scraper.py, save_markdown
\* of simple_scraper.py: a line of the table of contents and then a section
\* for every page.  Only advanced_scraper.py writes an element with an id
\* before the heading of a section.
compile_markdown(v, pgs) ==
    [toc |-> [i \in 1 .. Len(pgs) |->
                [indent |-> IF v = "simple" THEN 0 ELSE pgs[i].level,
                 title |-> pgs[i].title,
                 anchor |-> slugify(pgs[i].title)]],
     sections |-> [i \in 1 .. Len(pgs) |->
                [id |-> IF v = "advanced" THEN slugify(pgs[i].title) ELSE NoText,
                 heading |-> pgs[i].title,
                 source |-> pgs[i].url]]]

\* compile_html of advanced_scraper.py: an entry of the navigation list and
\* then an article for every page.
compile_html(pgs) ==
    [toc |-> [i \in 1 .. Len(pgs) |->
                [indent |-> pgs[i].level,
                 title |-> pgs[i].title,
                 anchor |-> slugify(pgs[i].title)]],
     sections |-> [i \in 1 .. Len(pgs) |->
                [id |-> slugify(pgs[i].title),
                 heading |-> pgs[i].title,
                 source |-> pgs[i].url]]]

\* (mutant) The entries are numbered anew, from 1.
save_metadataRenumbered(v, pgs) ==
    LET entries == [i \in 1 .. Len(pgs) |->
                      [index |-> i, title |-> pgs[i].title,
                       url |-> pgs[i].url, level |-> pgs[i].level]]
    IN  IF v = "advanced"
        THEN [base_url |-> base_url, total_pages |-> Len(pgs), pages |-> entries]
        ELSE [base_url |-> base_url, pages_scraped |-> Len(pgs), pages |-> entries]

\* The dictionary that save_metadata dumps: the count is under the key
\* 'total_pages' in advanced_scraper.py and 'pages_scraped' in scraper.py.
save_metadata(v, pgs) ==
    LET entries == [i \in 1 .. Len(pgs) |->
                      [index |-> pgs[i].index, title |-> pgs[i].title,
                       url |-> pgs[i].url, level |-> pgs[i].level]]
    IN  IF v = "advanced"
        THEN [base_url |-> base_url, total_pages |-> Len(pgs), pages |-> entries]
        ELSE [base_url |-> base_url, pages_scraped |-> Len(pgs), pages |-> entries]

\* The crawl that run() started has returned with some page collection.
CompileInit ==
    /\ variant \in {"advanced", "scraper", "simple"}
    /\ entry = "main"
    /\ arg = IF variant = "advanced" THEN MaxBudget ELSE 0
    /\ pc = "scraped"
    /\ max_pages = BudgetOf(variant, entry, arg)
    /\ pages \in PageCollections(variant)
    /\ visited = {pages[i].url : i \in 1 .. Len(pages)}
    /\ fetched_ok = visited
    /\ fetch_calls = [u \in Urls |-> IF u \in visited THEN 1 ELSE 0]
    /\ dist = [u \in Urls |-> IF u \in visited THEN 0 ELSE Unreached]
    /\ site_links = 0
    /\ waited = 0
    /\ to_visit = <<>>
    /\ page_count = 0
    /\ url = base_url
    /\ attempt = 0
    /\ html = NoPage
    /\ gap = RateLimitDelay
    /\ outputs = {}
    /\ exit_code = 0
    /\ run_state = "Running"
    /\ SlugIdle /\ TitleIdle /\ DocsIdle /\ LinkIdle
    /\ FileIdle /\ MdIdle /\ TreeIdle
    /\ LevelIdle /\ TwinIdle

\* run() of advanced_scraper.py returns before compiling when no page was
\* scraped; the other two compile whatever there is.
CompileMarkdown ==
    /\ pc = "scraped"
    /\ docs.markdown = NoDoc
    /\ variant = "advanced" => Len(pages) > 0
    /\ docs' = [docs EXCEPT !.markdown = compile_markdown(variant, pages)]
    /\ UNCHANGED <<crawlvars, slugvars, titlevars, linkvars, filevars, mdvars, tree,
                   levelvars, twinvars>>

CompileHtml ==
    /\ pc = "scraped"
    /\ variant = "advanced"
    /\ docs.markdown # NoDoc /\ docs.html = NoDoc
    /\ docs' = [docs EXCEPT !.html = compile_html(pages)]
    /\ UNCHANGED <<crawlvars, slugvars, titlevars, linkvars, filevars, mdvars, tree,
                   levelvars, twinvars>>

\* run() calls save_metadata last, after the compilers; simple_scraper.py
\* has no metadata.
SaveMetadata ==
    /\ pc = "scraped"
    /\ variant # "simple"
    /\ docs.markdown # NoDoc
    /\ variant = "advanced" => docs.html # NoDoc
    /\ metadata = NoMetadata
    /\ metadata' = save_metadata(variant, pages)
    /\ UNCHANGED <<crawlvars, slugvars, titlevars, docs, linkvars, filename, mdvars, tree,
                   levelvars, twinvars>>

CompileNext == CompileMarkdown \/ CompileHtml \/ SaveMetadata

CompileSpec == CompileInit /\ [][CompileNext]_vars


\* ------------------------------------------------------------ link discovery
\* base_url as a URL:
\* https://support.apple.com/en-in/guide/shortcuts/welcome/ios
SeedUrl ==
    [scheme |-> "https", host |-> "support.apple.com",
     path |-> <<"en-in", "guide", "shortcuts", "welcome", "ios">>]

\* The hrefs of the anchors: an absolute URL, or a path that starts with a
\* slash ("rooted"), or a relative path.
HrefPaths == SeqsUpTo({"guide", "shortcuts", "x", ".."}, MaxHrefSegs) \ {<<>>}

Hrefs ==
    [kind : {"absolute"}, scheme : {"https", "http"},
     host : {"support.apple.com", "other.example"}, path : HrefPaths]
    \cup [kind : {"rooted", "relative"}, scheme : {""}, host : {""}, path : HrefPaths]

\* Where an anchor stands: inside a navigation container, as a "next" link,
\* inside main, or elsewhere.
Places == {"nav", "next", "main", "other"}

\* '/guide/shortcuts/' in s, for the string s that is the segments p joined
\* with slashes, with a slash before the first one (rooted) or without.
HasPrefix(p, rooted) ==
    \E i \in 1 .. (Len(p) - 2) :
        /\ p[i] = "guide" /\ p[i + 1] = "shortcuts"
        /\ rooted \/ i > 1

\* '/guide/shortcuts/' in href and '/guide/shortcuts/' in full_url
InHref(h) == HasPrefix(h.path, h.kind # "relative")
InUrl(u) == HasPrefix(u.path, TRUE)

\* The loop of urljoin that resolves the segments '..'.
RECURSIVE Resolve(_, _)
Resolve(segs, done) ==
    IF segs = <<>> THEN done
    ELSE IF Head(segs) = ".."
    THEN Resolve(Tail(segs), IF done = <<>> THEN <<>> ELSE SubSeq(done, 1, Len(done) - 1))
    ELSE Resolve(Tail(segs), Append(done, Head(segs)))

\* The path urljoin returns for the segments segs: a last segment '..' leaves
\* a trailing slash.
RemoveDots(segs) ==
    IF segs[Len(segs)] = ".." THEN Append(Resolve(segs, <<>>), "")
    ELSE Resolve(segs, <<>>)

\* urllib.parse.urljoin(current_url, href): an href with a host is returned
\* as it is; a path is merged with the directory of the page and resolved.
urljoin(cur, h) ==
    IF h.kind = "absolute" THEN [scheme |-> h.scheme, host |-> h.host, path |-> h.path]
    ELSE [scheme |-> cur.scheme, host |-> cur.host,
          path |-> IF h.kind = "rooted" THEN RemoveDots(h.path)
                   ELSE RemoveDots(SubSeq(cur.path, 1, Len(cur.path) - 1) \o h.path)]

\* Whether link discovery of scraper v takes the anchor a of the page cur:
\* extract_toc_links tests the resolved URL of an anchor in a navigation
\* container and the href of a "next" link; extract_navigation_links tests
\* the resolved URL of an anchor in a navigation container and selects the
\* anchors of main by their href; extract_links tests the href of every
\* anchor.
Qualifies(v, cur, a) ==
    /\ ~a.seen
    /\ IF v = "advanced"
       THEN \/ a.place = "nav" /\ InUrl(urljoin(cur, a.href))
            \/ a.place = "next" /\ InHref(a.href)
       ELSE IF v = "scraper"
       THEN \/ a.place = "nav" /\ InUrl(urljoin(cur, a.href))
            \/ a.place = "main" /\ InHref(a.href)
       ELSE InHref(a.href)

\* The links that discovery returns for the anchor.
DiscoveredLinks(v, cur, a) ==
    IF Qualifies(v, cur, a) THEN <<urljoin(cur, a.href)>> ELSE <<>>

\* Link discovery is called for a page with some anchor.
LinkInit ==
    /\ CrawlInit /\ entry = "main" /\ arg = IF variant = "advanced" THEN 1 ELSE 0
    /\ SlugIdle /\ TitleIdle /\ DocsIdle
    /\ FileIdle /\ MdIdle /\ TreeIdle
    /\ LevelIdle /\ TwinIdle
    /\ current_url = SeedUrl
    /\ anchor \in [place : Places, href : Hrefs, seen : BOOLEAN]
    /\ new_links = NoLinks
    /\ requested = NoUrl

\* The call returns.
ExtractLinks ==
    /\ new_links = NoLinks
    /\ new_links' = DiscoveredLinks(variant, current_url, anchor)
    /\ UNCHANGED <<crawlvars, slugvars, titlevars, docs, current_url, anchor, requested,
                   filevars, mdvars, tree, levelvars, twinvars>>

\* The loop appends the link to the frontier (its URL is still not visited)
\* and a later iteration takes it from there and calls fetch_page.
RequestLink ==
    /\ new_links # NoLinks /\ new_links # <<>>
    /\ requested = NoUrl
    /\ requested' = new_links[1]
    /\ UNCHANGED <<crawlvars, slugvars, titlevars, docs, current_url, anchor, new_links,
                   filevars, mdvars, tree, levelvars, twinvars>>

LinkNext == ExtractLinks \/ RequestLink

LinkSpec == LinkInit /\ [][LinkNext]_vars


\* ------------------------------------------------------------ one iteration
\* The body of the loop parses the page once and hands the same soup first
\* to content extraction and then to link discovery.  The page of the model
\* has one anchor; it may lie inside the content root, and inside an element
\* that matches the list of unwanted selectors (nav, header, footer, ...).

\* Whether content extraction removes the anchor from the soup:
\* extract_main_content decomposes the unwanted elements below the content
\* root; clean_content of simple_scraper.py those of the whole page.
Decomposed(v, t) == t.unwanted /\ (v = "simple" \/ t.in_root)

\* BeautifulSoup has parsed the page that was fetched.  In scraper.py the
\* content root is main whenever there is one.
BodyInit ==
    /\ CrawlInit /\ entry = "main" /\ arg = IF variant = "advanced" THEN 1 ELSE 0
    /\ SlugIdle /\ TitleIdle /\ DocsIdle /\ FileIdle /\ MdIdle
    /\ LevelIdle /\ TwinIdle
    /\ current_url = SeedUrl
    /\ anchor \in [place : Places, href : {h \in Hrefs : h.kind = "rooted"}, seen : {FALSE}]
    /\ tree \in [in_root : BOOLEAN, unwanted : BOOLEAN, step : {"parsed"}, present : {TRUE}]
    /\ variant = "scraper" /\ anchor.place = "main" => tree.in_root
    /\ new_links = NoLinks
    /\ requested = NoUrl

\* extract_main_content(soup, url) / clean_content(soup) returns.
ExtractMainContent ==
    /\ tree.step = "parsed"
    /\ tree' = [tree EXCEPT !.step = "extracted",
                            !.present = ~Decomposed(variant, tree)]
    /\ UNCHANGED <<crawlvars, slugvars, titlevars, docs, linkvars, filevars, mdvars,
                   levelvars, twinvars>>

\* Link discovery is called with the soup as content extraction left it.
DiscoverLinks ==
    /\ tree.step = "extracted"
    /\ new_links = NoLinks
    /\ new_links' = IF tree.present THEN DiscoveredLinks(variant, current_url, anchor)
                    ELSE <<>>
    /\ UNCHANGED <<crawlvars, slugvars, titlevars, docs, current_url, anchor, requested,
                   filevars, mdvars, tree, levelvars, twinvars>>

BodyNext == ExtractMainContent \/ DiscoverLinks

BodySpec == BodyInit /\ [][BodyNext]_vars


\* ------------------------------------------------------------ content_to_markdown
\* An element of the parsed page: its tag, the text it holds itself and its
\* child elements.
Elem(tag, txt, kids) == [tag |-> tag, text |-> txt, kids |-> kids]

\* Elements without a list: headings of three levels, a paragraph with text
\* and one with a blank only, a pre, and a div around a paragraph.
Leaves ==
    {Elem("h1", <<"a">>, <<>>), Elem("h2", <<"a">>, <<>>), Elem("h5", <<"a">>, <<>>),
     Elem("p", <<"a">>, <<>>), Elem("p", <<" ">>, <<>>), Elem("pre", <<"a">>, <<>>),
     Elem("div", <<>>, <<Elem("p", <<"a">>, <<>>)>>)}

\* A list item with text, and one that holds a list of its own.
PlainItem == Elem("li", <<"a">>, <<>>)
NestedItem == Elem("li", <<"a">>, <<Elem("ul", <<>>, <<PlainItem>>)>>)

Lists ==
    {Elem(t, <<>>, items) :
        t \in {"ul", "ol"},
        items \in SeqsUpTo({PlainItem, NestedItem}, MaxListItems) \ {<<>>}}

\* The children of the content root that extract_main_content returned: some
\* elements without a list and then at most one list.
Contents ==
    {l \o r : l \in SeqsUpTo(Leaves, MaxLeafKids), r \in {<<>>} \cup {<<x>> : x \in Lists}}

\* The elements below a sequence of siblings, in document order.
RECURSIVE Descendants(_)
Descendants(elems) ==
    IF elems = <<>> THEN <<>>
    ELSE <<Head(elems)>> \o Descendants(Head(elems).kids) \o Descendants(Tail(elems))

\* content.find_all(tags)
find_all(elems, tags) == SelectSeq(Descendants(elems), LAMBDA e : e.tag \in tags)

\* element.find_all('li', recursive=False)
find_children(e, tags) == SelectSeq(e.kids, LAMBDA k : k.tag \in tags)

RECURSIVE Concat(_)
Concat(ss) == IF ss = <<>> THEN <<>> ELSE Head(ss) \o Concat(Tail(ss))

\* element.get_text(strip=True): the stripped strings of the element and of
\* the elements below it, joined.
RECURSIVE get_text(_)
get_text(e) == strip(e.text) \o Concat([i \in 1 .. Len(e.kids) |-> get_text(e.kids[i])])

\* An entry of the list md: its kind, the level of a heading, the number
\* before an item of an ordered list (0: none), and its text.
Block(kind, level, ordinal, txt) ==
    [kind |-> kind, level |-> level, ordinal |-> ordinal, text |-> txt]

HeadingTags == <<"h1", "h2", "h3", "h4", "h5", "h6">>

\* if title: md.append(f"# {title}\n")
TitleLine(t) == IF t # <<>> THEN <<Block("title", 1, 0, t)>> ELSE <<>>

\* The headings: for every level from 2 to 6, every element of that level.
HeadingBlocks(cont) ==
    Concat([k \in 1 .. 5 |->
              LET found == find_all(cont, {HeadingTags[k + 1]})
              IN  [i \in 1 .. Len(found) |-> Block("heading", k + 1, 0, get_text(found[i]))]])

\* The paragraphs: every p whose text is not empty.
ParagraphBlocks(cont) ==
    LET found == SelectSeq(find_all(cont, {"p"}), LAMBDA p : get_text(p) # <<>>)
    IN  [i \in 1 .. Len(found) |-> Block("paragraph", 0, 0, get_text(found[i]))]

\* The items of the list l with the empty line after them; those of an
\* ordered list are numbered from 1.
ItemBlocks(l, items) ==
    [idx \in 1 .. Len(items) |->
        Block("item", 0, IF l.tag = "ol" THEN idx ELSE 0, get_text(items[idx]))]
    \o <<Block("blank", 0, 0, <<>>)>>

\* (mutant) The items of a list are all the li below it.
ListBlocksDeep(cont, tag) ==
    LET found == find_all(cont, {tag})
    IN  Concat([i \in 1 .. Len(found) |->
                  ItemBlocks(found[i], find_all(found[i].kids, {"li"}))])

\* The lists: for every ul, and then for every ol, below the root, the li
\* that are its children.
ListBlocks(cont, tag) ==
    LET found == find_all(cont, {tag})
    IN  Concat([i \in 1 .. Len(found) |->
                  ItemBlocks(found[i], find_children(found[i], {"li"}))])

\* The code: every pre is fenced, every code is put between backquotes.
CodeBlocks(cont) ==
    LET found == find_all(cont, {"pre", "code"})
    IN  [i \in 1 .. Len(found) |->
            Block(IF found[i].tag = "pre" THEN "fence" ELSE "code", 0, 0, found[i].text)]

\* content_to_markdown(content, title), before the join.  content is a Tag,
\* which is never falsy, so the early return is not taken.
content_to_markdown(cont, t) ==
    TitleLine(t) \o HeadingBlocks(cont) \o ParagraphBlocks(cont)
    \o ListBlocks(cont, "ul") \o ListBlocks(cont, "ol") \o CodeBlocks(cont)

\* content_to_markdown is called with the content of some page and a title
\* or, as its default has it, without one.
MarkdownInit ==
    /\ CrawlIdle
    /\ SlugIdle /\ DocsIdle /\ LinkIdle /\ FileIdle /\ TreeIdle
    /\ LevelIdle /\ TwinIdle
    /\ soup = [h1 |-> NoText, title |-> NoText]
    /\ title \in {<<>>, <<"a">>}
    /\ main_content \in Contents
    /\ md = NoMd

\* The call returns.
ContentToMarkdown ==
    /\ main_content # NoContent /\ md = NoMd
    /\ md' = content_to_markdown(main_content, title)
    /\ UNCHANGED <<crawlvars, slugvars, titlevars, docs, linkvars, filevars, main_content, tree,
                   levelvars, twinvars>>

MarkdownSpec == MarkdownInit /\ [][ContentToMarkdown]_vars


\* ------------------------------------------------- extract_toc_links: level
\* The elements a link of a navigation container can stand in.  A chain
\* lists the names of the ancestors of the link, link.parent first, the
\* child of the document last; container is the place in it of the element
\* that soup.select matched and whose find_all('a', href=True) gave the link.
AncestorTags == {"ul", "ol", "li", "div", "nav", "aside"}

\* The names of the elements the selector list of nav_containers can match.
ContainerTags == {"nav", "aside", "div"}

Chains ==
    {[chain |-> c, container |-> k] :
        <<c, k>> \in {ck \in (SeqsUpTo(AncestorTags, MaxAncestors) \ {<<>>}) \X (1 .. MaxAncestors) :
                          ck[2] <= Len(ck[1]) /\ ck[1][ck[2]] \in ContainerTags}}

\* The number of list elements among the first n ancestors.
NumLists(c, n) == Cardinality({i \in 1 .. n : c[i] \in {"ul", "ol"}})

\* Where `while parent and parent.name != 'nav'` leaves the loop: at the
\* nearest ancestor named nav or, without one, beyond the document, whose
\* name is '[document]' and whose parent is None.
WalkEnd(c) ==
    IF \E i \in 1 .. Len(c) : c[i] = "nav"
    THEN CHOOSE i \in 1 .. Len(c) : c[i] = "nav" /\ \A j \in 1 .. (i - 1) : c[j] # "nav"
    ELSE Len(c) + 1

\* 'level' of the link dictionary.
hierarchy_level(c) == NumLists(c, WalkEnd(c) - 1)

\* extract_toc_links has found a link in a container.
LevelInit ==
    /\ CrawlIdle
    /\ SlugIdle /\ TitleIdle /\ DocsIdle /\ LinkIdle /\ FileIdle /\ MdIdle /\ TreeIdle
    /\ TwinIdle
    /\ ancestors \in Chains
    /\ link_level = -1

\* The level of the link is determined.
DetermineLevel ==
    /\ ancestors # NoChain /\ link_level = -1
    /\ link_level' = hierarchy_level(ancestors.chain)
    /\ UNCHANGED <<crawlvars, slugvars, titlevars, docs, linkvars, filevars, mdvars, tree,
                   ancestors, twinvars>>

LevelSpec == LevelInit /\ [][DetermineLevel]_vars


\* ------------------------------------------ scrape_all_pages: two crawls
\* Two runs of scrape_all_pages of advanced_scraper.py, one iteration of the
\* while loop at a time, over sites that have the same links in the same
\* order and answer the same requests alike.  The links of the first site
\* have levels, those of the second are all at level 0.
TwinUrls == 0 .. (NumTwinUrls - 1)
Levels == 0 .. MaxLevel

\* A link dictionary of extract_toc_links, and a task of to_visit.
Link(u, l) == [url |-> u, level |-> l]

\* What extract_toc_links can return for a page when the site has n links left.
TocLinks(n) ==
    SeqsUpTo({Link(u, l) : u \in TwinUrls, l \in Levels},
             IF n < MaxLinks THEN n ELSE MaxLinks)

\* The same links without their nesting.
Flat(links) == [i \in 1 .. Len(links) |-> Link(links[i].url, 0)]

\* The state of a run at `to_visit = [...]; page_count = 0`.
StartRun(n) ==
    [to_visit |-> <<Link(base_url, 0)>>, visited |-> {}, pages |-> <<>>, page_count |-> 0,
     fetched |-> <<>>, discovered |-> 0, max_pages |-> n]

\* while to_visit and page_count < max_pages
LoopRuns(r) == r.to_visit # <<>> /\ r.page_count < r.max_pages

\* A frontier that takes the links of the outer level first.
EnqueueByLevel(queue, links, vis) ==
    queue \o SelectSeq(links, LAMBDA l : l.url \notin vis /\ l.level = 0)
          \o SelectSeq(links, LAMBDA l : l.url \notin vis /\ l.level # 0)


\* `for link in new_links: if link['url'] not in visited: to_visit.append(link)`
Enqueue(queue, links, vis) == queue \o SelectSeq(links, LAMBDA l : l.url \notin vis)

\* One iteration of the loop, from the pop to the continue or to the end of
\* the body.  ok says whether fetch_page returns a page, links is what
\* extract_toc_links returns for it.
Iterate(r, ok, links) ==
    LET page_info == Head(r.to_visit)
        rest == Tail(r.to_visit)
        vis == r.visited \cup {page_info.url}
    IN  IF page_info.url \in r.visited
        THEN [r EXCEPT !.to_visit = rest]
        ELSE IF ~ok
        THEN [r EXCEPT !.to_visit = rest, !.fetched = Append(@, page_info.url)]
        ELSE [r EXCEPT !.to_visit = Enqueue(rest, links, vis),
                       !.visited = vis,
                       !.pages = Append(@, [index |-> r.page_count, url |-> page_info.url,
                                            level |-> page_info.level]),
                       !.page_count = @ + 1,
                       !.fetched = Append(@, page_info.url),
                       !.discovered = @ + Len(links)]

\* Both runs are called with the same max_pages.
TwinInit ==
    /\ CrawlIdle
    /\ SlugIdle /\ TitleIdle /\ DocsIdle /\ LinkIdle /\ FileIdle /\ MdIdle /\ TreeIdle
    /\ LevelIdle
    /\ \E n \in 1 .. MaxBudget : levelled = StartRun(n) /\ plain = StartRun(n)

\* Each run that has not left its loop does one iteration; the request and
\* the page are the same for both.
TwinIterate ==
    /\ levelled # NoRun
    /\ LoopRuns(levelled) \/ LoopRuns(plain)
    /\ \E ok \in BOOLEAN, links \in TocLinks(MaxTwinLinks - levelled.discovered) :
          /\ levelled' = IF LoopRuns(levelled) THEN Iterate(levelled, ok, links) ELSE levelled
          /\ plain' = IF LoopRuns(plain) THEN Iterate(plain, ok, Flat(links)) ELSE plain
    /\ UNCHANGED <<crawlvars, slugvars, titlevars, docs, linkvars, filevars, mdvars, tree,
                   levelvars>>

TwinSpec == TwinInit /\ [][TwinIterate]_vars


\* ------------------------------------------ simple_scraper: clean_content
\* The tags main.find_all looks for.
CleanTags == {"h1", "h2", "h3", "h4", "h5", "h6", "p", "ul", "ol", "pre", "code"}

\* What the body of the loop over the elements appends for one of them:
\* nothing for an element without text, a heading, a paragraph, the items
\* of a list, each behind "- ", with an empty line after them, or a fence.
CleanBlocks(e) ==
    IF get_text(e) = <<>> THEN <<>>
    ELSE IF e.tag \in Range(HeadingTags)
    THEN <<Block("heading", CHOOSE k \in 1 .. 6 : HeadingTags[k] = e.tag, 0, get_text(e))>>
    ELSE IF e.tag = "p" THEN <<Block("paragraph", 0, 0, get_text(e))>>
    ELSE IF e.tag \in {"ul", "ol"}
    THEN LET items == find_children(e, {"li"})
         IN  [i \in 1 .. Len(items) |-> Block("item", 0, 0, get_text(items[i]))]
             \o <<Block("blank", 0, 0, <<>>)>>
    ELSE <<Block("fence", 0, 0, get_text(e))>>

\* clean_content(soup), before the join, for a soup whose main element has
\* the children cont.
clean_content(cont) ==
    LET found == find_all(cont, CleanTags)
    IN  Concat([i \in 1 .. Len(found) |-> CleanBlocks(found[i])])

\* clean_content is called with the soup of some page.
CleanInit ==
    /\ CrawlIdle
    /\ SlugIdle /\ TitleIdle /\ DocsIdle /\ LinkIdle /\ FileIdle /\ TreeIdle
    /\ LevelIdle /\ TwinIdle
    /\ main_content \in Contents
    /\ md = NoMd

\* The call returns.
CleanContent ==
    /\ main_content # NoContent /\ md = NoMd
    /\ md' = clean_content(main_content)
    /\ UNCHANGED <<crawlvars, slugvars, titlevars, docs, linkvars, filevars, main_content, tree,
                   levelvars, twinvars>>

CleanSpec == CleanInit /\ [][CleanContent]_vars


\* ------------------------------------------------------------ properties
PageUrls == [i \in 1 .. Len(pages) |-> pages[i].url]

\* Some call of fetch_page for u returned None.
FailedFor(u) ==
    \/ fetch_calls[u] > 1
    \/ fetch_calls[u] = 1 /\ u \notin fetched_ok /\ ~(pc = "fetch" /\ url = u)

\* No call of fetch_page has returned None, and none was cut off.
NoFetchFailed == \A u \in Urls : ~FailedFor(u)

\* C1: in one run fetch_page is called at most once for each URL.
C1_FetchedAtMostOnce == \A u \in Urls : fetch_calls[u] <= 1

\* C2: in advanced_scraper.py and scraper.py the index fields of the accepted
\* pages, in list order, are 0, 1, ..., n-1, whatever failed or was skipped.
C2_IndicesGapless ==
    variant # "simple" => \A i \in 1 .. Len(pages) : pages[i].index = i - 1

\* Two pages are accepted after a fetch failed and a duplicate was skipped.
C2_Witness ==
    /\ variant # "simple"
    /\ Len(pages) >= 2
    /\ \E u \in Urls : FailedFor(u) /\ u \notin fetched_ok
    /\ pc = "loop" /\ to_visit # <<>> /\ Head(to_visit) \in visited

\* C3: when every fetch succeeds, pages are accepted in non-decreasing order
\* of their shortest link distance from base_url, and no page is accepted
\* while a page nearer to base_url is known and not accepted (so with
\* base_url linking to A then B, A linking to C and max_pages = 3 the pages
\* are base_url, A, B).  dist is the shortest distance exactly because no
\* link of a newly fetched page ever shortens the path to a page accepted
\* before, which is the second conjunct.
C3_BreadthFirst ==
    NoFetchFailed =>
        /\ \A i, j \in 1 .. Len(pages) :
              i < j => dist[pages[i].url] <= dist[pages[j].url]
        /\ pc = "accept" =>
              \A v \in Range(AllLinks(html)) \cap visited : dist[v] <= dist[url] + 1
        /\ \A i \in 1 .. Len(pages) : \A u \in Urls :
              dist[u] < dist[pages[i].url] => u \in visited

\* base_url links to A = 1 then B = 2, A links to C = 3, the budget is 3:
\* base_url, A and B are accepted and C is left in the frontier.
C3_Witness ==
    /\ variant = "advanced" /\ entry = "call" /\ max_pages = 3
    /\ NoFetchFailed
    /\ pc = "loop"
    /\ page_count = 3
    /\ PageUrls = <<0, 1, 2>>
    /\ to_visit = <<3>>
    /\ dist[3] = 2

\* A step that takes a task from the frontier.
DequeueStep == pc = "loop" /\ pc' \in {"loop", "fetch"}

\* C4: in advanced_scraper.py and simple_scraper.py the accepted pages never
\* exceed max_pages, and no task is dequeued or fetched once page_count has
\* reached max_pages; with max_pages = 0 nothing is fetched.
C4_BudgetEnforced ==
    /\ [](variant # "scraper" =>
            /\ Len(pages) <= max_pages
            /\ pc \in {"fetch", "accept"} => page_count < max_pages
            /\ max_pages = 0 => \A u \in Urls : fetch_calls[u] = 0)
    /\ [][variant # "scraper" /\ DequeueStep => page_count < max_pages]_vars

\* The budget is reached while the frontier still holds tasks.
C4_Witness ==
    /\ variant # "scraper" /\ pc = "loop"
    /\ max_pages > 0 /\ page_count = max_pages /\ Len(pages) = max_pages
    /\ to_visit # <<>>

\* C5: scrape_guide of scraper.py is bounded by a page budget.  The budgets
\* of the model are 0 .. MaxBudget; the site has more pages than that.
C5_GuideBudget == variant = "scraper" => Len(pages) <= MaxBudget

\* C6: --max-pages N bounds the crawl that main() of advanced_scraper.py
\* starts: at most N pages are accepted.
C6_CliBudget == variant = "advanced" /\ entry = "main" => Len(pages) <= arg

\* A step in which fetch_page, called for the dequeued task, fails.
FetchFailStep == pc = "fetch" /\ pc' \in {"fetch", "loop"}

\* C7: a failed fetch leaves the pages, the page count and the visited set
\* unchanged and enqueues nothing, the loop goes on, and a URL no fetch of
\* which succeeded is in no page.
C7_FailureSkipsTask ==
    /\ [][FetchFailStep =>
            /\ UNCHANGED <<pages, page_count, visited, to_visit>>
            /\ run_state' = "Running"
            /\ exit_code' = exit_code]_vars
    /\ [][pc = "loop" /\ pc' = "fetch" =>
            /\ to_visit' = Tail(to_visit)
            /\ UNCHANGED <<pages, page_count, visited>>]_vars
    /\ [](\A i \in 1 .. Len(pages) : pages[i].url \in fetched_ok)

\* A crawl completed in which every fetch of some URL failed and pages were
\* accepted.
C7_Witness ==
    /\ pc = "done" /\ run_state = "Completed"
    /\ Len(pages) >= 2
    /\ \E u \in Urls : fetch_calls[u] >= 1 /\ u \notin fetched_ok

\* A step that makes the first request of a call of fetch_page.
FirstRequestStep == pc = "fetch" /\ attempt = 0 /\ pc' # "done"

\* C8: the inter-request delay is applied at the end of every iteration that
\* attempted a fetch, so when an iteration makes its first request at least
\* that delay has passed since the start of the request before it.
C8_RateLimited == [][FirstRequestStep => gap >= RateLimitDelay]_vars

\* C9: when the operator interrupts the crawl that run() started, the pages
\* accepted so far are still compiled.
C9_PartialOutput ==
    entry = "main" /\ run_state = "Aborted" /\ Len(pages) > 0 =>
        "markdown" \in outputs

\* A step that leaves the while loop by its condition.
LoopExitStep == pc = "loop" /\ pc' \in {"scraped", "done"} /\ run_state' # "Aborted"

\* C10: the crawl terminates, and scrape_all_pages leaves the loop exactly
\* when the frontier is empty or page_count has reached max_pages.
C10_Terminates ==
    /\ <>(pc = "done")
    /\ [][variant = "advanced" /\ LoopExitStep =>
            to_visit = <<>> \/ page_count >= max_pages]_vars
    /\ [][variant = "advanced" /\ DequeueStep =>
            to_visit # <<>> /\ page_count < max_pages]_vars

\* The frontier leads back to a page already accepted.
C10_Witness ==
    /\ variant = "advanced" /\ pc = "loop"
    /\ to_visit # <<>> /\ Head(to_visit) \in visited
    /\ page_count < max_pages

\* C11: fetch_page of advanced_scraper.py makes at most max_retries attempts
\* (3 by default, the only value the crawl passes); a successful attempt ends
\* the call with no further attempt; None (the local html is then NoPage) is
\* returned only by the failure of attempt number max_retries.
C11_BoundedRetries ==
    [][variant = "advanced" =>
          /\ pc = "fetch" => attempt + 1 <= DefaultMaxRetries
          /\ pc = "fetch" /\ pc' = "accept" => attempt' = attempt
          /\ pc = "accept" => attempt' <= attempt
          /\ pc = "fetch" /\ pc' = "loop" /\ html' = NoPage =>
                attempt + 1 = DefaultMaxRetries]_vars

\* fetch_page has just returned None for a URL that was fetched once.
C11_Witness ==
    /\ variant = "advanced" /\ pc = "loop"
    /\ fetch_calls[url] = 1 /\ url \notin fetched_ok
    /\ html = NoPage

\* The page that the iteration just finished has no content block: its root
\* is blank or, in simple_scraper.py, missing.
ZeroBlocks(page) == page.markup \in {"blank", "rootless"}

C13_EmptyContentAccepted ==
    /\ run_state # "Failed"
    /\ pc = "loop" /\ html = EmptyPage =>
          Len(pages) > 0 /\ pages[Len(pages)].url = url


\* C14: every link that discovery returns for the frontier has a URL that,
\* resolved against the URL of the page, contains '/guide/shortcuts/' and was
\* not in the visited set; so every URL fetched after the seed contains it.
C14_LinksInScope ==
    /\ new_links # NoLinks =>
          \A i \in 1 .. Len(new_links) : InUrl(new_links[i]) /\ ~anchor.seen
    /\ requested # NoUrl => InUrl(requested)

\* C15: every URL fetched has the scheme and the host of base_url.
C15_SameOrigin ==
    requested # NoUrl =>
        requested.scheme = SeedUrl.scheme /\ requested.host = SeedUrl.host


\* C16: no two entries of the page collection have the same URL.
C16_DistinctPageUrls ==
    \A i, j \in 1 .. Len(pages) : pages[i].url = pages[j].url => i = j

\* A task for a page accepted earlier was dequeued again and skipped.
C16_Witness ==
    /\ pc = "loop" /\ Len(pages) >= 2
    /\ \E i \in 1 .. (Len(pages) - 1) : pages[i].url = url


\* The text of the title tag before its first em-dash or hyphen, without the
\* blanks around it: for no title tag, the empty text.
IsTitleCut(t, cut) ==
    IF t = NoText THEN cut = <<>>
    ELSE \E k \in 0 .. Len(strip(t)) :
            /\ \A i \in 1 .. k : strip(t)[i] \notin {EmDash, "-"}
            /\ k < Len(strip(t)) => strip(t)[k + 1] \in {EmDash, "-"}
            /\ cut = strip(SubSeq(strip(t), 1, k))

\* C17: extract_title of advanced_scraper.py returns a title that is not
\* empty: the text of the first h1 if that is not empty, else the text of the
\* title tag before its first em-dash or hyphen if that is not empty, else
\* 'Untitled'.
C17_TitleResolution ==
    title # NoText =>
        LET h1 == IF soup.h1 = NoText THEN <<>> ELSE strip(soup.h1)
        IN  /\ title # <<>>
            /\ h1 # <<>> => title = h1
            /\ h1 = <<>> =>
                  \/ title # Untitled /\ IsTitleCut(soup.title, title)
                  \/ title = Untitled /\ IsTitleCut(soup.title, <<>>)

\* The h1 is blank and the title tag was cut at a separator.
C17_Witness ==
    /\ title # NoText /\ title # Untitled
    /\ soup.h1 # NoText /\ strip(soup.h1) = <<>>
    /\ Len(title) < Len(strip(soup.title))


\* C18: slugify is idempotent, slugify(slugify(x)) = slugify(x), and pure:
\* its result is a function of its argument and the call changes nothing
\* else, over texts of upper- and lower-case letters, digits, blanks,
\* hyphens, underscores and punctuation.
C18_SlugIdempotent ==
    /\ [](slug # NoText => slug = slugify(text) /\ slugify(slug) = slug)
    /\ [][slug' # slug => UNCHANGED crawlvars /\ (slug' # NoText => text' = text)]_vars

\* slugify returned something other than its argument, and not the empty text.
C18_Witness == slug # NoText /\ slug # text /\ slug # <<>>


\* The slug as the specification describes it: lower-cased, every character
\* other than a letter, a digit, a blank or a hyphen removed, every run of
\* blanks replaced by one hyphen, hyphens trimmed at both ends.
RECURSIVE JoinBlanks(_)
JoinBlanks(t) ==
    IF t = <<>> THEN <<>>
    ELSE IF IsSpace(Head(t))
    THEN LET rest == JoinBlanks(Tail(t))
         IN  IF Len(t) > 1 /\ IsSpace(t[2]) THEN rest ELSE <<"-">> \o rest
    ELSE <<Head(t)>> \o JoinBlanks(Tail(t))

DescribedSlug(t) ==
    StripHyphens(JoinBlanks(SelectSeq(lower(t), LAMBDA c : c \in {"a", "1", " ", "-"})))

\* C19 (as stated): slugify returns the described slug, which holds nothing
\* but lower-case letters, digits and hyphens and neither starts nor ends
\* with a hyphen.
C19_SlugAsDescribed ==
    slug # NoText =>
        /\ slug = DescribedSlug(text)
        /\ Range(slug) \subseteq {"a", "1", "-"}
        /\ slug # <<>> => slug[1] # "-" /\ slug[Len(slug)] # "-"

\* The words of a text: its maximal runs of characters that are neither a
\* blank nor a hyphen.
RECURSIVE Words(_, _)
Words(t, word) ==
    IF t = <<>> THEN (IF word = <<>> THEN <<>> ELSE <<word>>)
    ELSE IF Head(t) = "-" \/ IsSpace(Head(t))
    THEN (IF word = <<>> THEN <<>> ELSE <<word>>) \o Words(Tail(t), <<>>)
    ELSE Words(Tail(t), Append(word, Head(t)))

RECURSIVE JoinWords(_)
JoinWords(ws) ==
    IF ws = <<>> THEN <<>>
    ELSE IF Len(ws) = 1 THEN ws[1]
    ELSE ws[1] \o <<"-">> \o JoinWords(Tail(ws))

\* C19 (amended): slugify lower-cases the text, removes every character
\* other than a letter, a digit, an underscore, a blank or a hyphen, and
\* joins the words that blanks and hyphens separate with single hyphens.  The
\* slug holds nothing but lower-case letters, digits, underscores and
\* hyphens, no two hyphens in a row, and none at either end.
C19_SlugShape ==
    slug # NoText =>
        /\ slug = JoinWords(Words(SelectSeq(lower(text), LAMBDA c : c # "!"), <<>>))
        /\ Range(slug) \subseteq {"a", "1", "_", "-"}
        /\ slug # <<>> => slug[1] # "-" /\ slug[Len(slug)] # "-"
        /\ \A i \in 1 .. (Len(slug) - 1) : ~(slug[i] = "-" /\ slug[i + 1] = "-")

\* An underscore was kept and a run of separators became one hyphen.
C19_Witness ==
    /\ slug # NoText
    /\ "_" \in Range(slug) /\ "-" \in Range(slug)
    /\ Len(slug) < Len(text)


\* C20: in every compiled aggregate document the anchor that the entry of a
\* page in the table of contents links to is the id written for the section
\* of that page, both being slugify of the title of the page.
C20_TocAnchorsMatch ==
    \A d \in {"markdown", "html"} :
        \A i \in 1 .. Len(docs[d].toc) :
            /\ docs[d].toc[i].anchor = slugify(pages[i].title)
            /\ docs[d].sections[i].id = docs[d].toc[i].anchor



\* C21: the title part of the name of the file of a page is the first 50
\* characters of slugify(title).
C21_FileNameIsSlug ==
    filename # NoFile /\ slug # NoText => filename.stem = Take(slug, FileStemMax)


\* The elements of a tree that are headings of level 2 to 6, paragraphs with
\* text other than blanks, and li directly below a ul or an ol.
RECURSIVE NumHeadings(_)
NumHeadings(elems) ==
    IF elems = <<>> THEN 0
    ELSE (IF Head(elems).tag \in {"h2", "h3", "h4", "h5", "h6"} THEN 1 ELSE 0)
         + NumHeadings(Head(elems).kids) + NumHeadings(Tail(elems))

RECURSIVE HasText(_)
HasText(e) ==
    \/ \E i \in 1 .. Len(e.text) : e.text[i] # " "
    \/ \E i \in 1 .. Len(e.kids) : HasText(e.kids[i])

RECURSIVE NumParagraphs(_)
NumParagraphs(elems) ==
    IF elems = <<>> THEN 0
    ELSE (IF Head(elems).tag = "p" /\ HasText(Head(elems)) THEN 1 ELSE 0)
         + NumParagraphs(Head(elems).kids) + NumParagraphs(Tail(elems))

RECURSIVE NumItems(_, _)
NumItems(elems, in_list) ==
    IF elems = <<>> THEN 0
    ELSE (IF Head(elems).tag = "li" /\ in_list THEN 1 ELSE 0)
         + NumItems(Head(elems).kids, Head(elems).tag \in {"ul", "ol"})
         + NumItems(Tail(elems), in_list)

OfKind(blocks, kind) == SelectSeq(blocks, LAMBDA b : b.kind = kind)

\* A content root with one h2, one p and one ul of three items.
ExampleContent ==
    <<Elem("h2", <<"a">>, <<>>), Elem("p", <<"a">>, <<>>),
      Elem("ul", <<>>, <<PlainItem, PlainItem, PlainItem>>)>>

\* C26: content_to_markdown returns one heading for every h2..h6 element, one
\* paragraph for every p with text, and one item for every li directly below
\* a ul or an ol; for the example these are one heading, one paragraph and
\* three items without a number.
C26_BlocksPerElement ==
    md # NoMd =>
        /\ Len(OfKind(md, "heading")) = NumHeadings(main_content)
        /\ Len(OfKind(md, "paragraph")) = NumParagraphs(main_content)
        /\ Len(OfKind(md, "item")) = NumItems(main_content, FALSE)
        /\ main_content = ExampleContent =>
              /\ OfKind(md, "heading") = <<Block("heading", 2, 0, <<"a">>)>>
              /\ OfKind(md, "paragraph") = <<Block("paragraph", 0, 0, <<"a">>)>>
              /\ OfKind(md, "item") = [i \in 1 .. 3 |-> Block("item", 0, 0, <<"a">>)]

C26_Witness == md # NoMd /\ main_content = ExampleContent /\ title # <<>>


\* The page count of a metadata record.
PageCountOf(m) == IF variant = "advanced" THEN m.total_pages ELSE m.pages_scraped

\* C22: the metadata is a projection of the page collection: its count is
\* the number of pages, and its entries are as many, in the same order, each
\* with the index, title, url and level of the page at its position.
C22_MetadataProjection ==
    metadata # NoMetadata =>
        /\ PageCountOf(metadata) = Len(pages)
        /\ Len(metadata.pages) = Len(pages)
        /\ \A i \in 1 .. Len(pages) :
              /\ metadata.pages[i].index = pages[i].index
              /\ metadata.pages[i].title = pages[i].title
              /\ metadata.pages[i].url = pages[i].url
              /\ metadata.pages[i].level = pages[i].level

\* The metadata of two pages that differ in title and in level.
C22_Witness ==
    /\ metadata # NoMetadata
    /\ Len(pages) = 2
    /\ pages[1].title # pages[2].title /\ pages[1].level # pages[2].level
    /\ metadata.pages[2].level = pages[2].level

\* C23: every run of run() of advanced_scraper.py whose crawl loop finishes
\* writes the metadata record, a run that accepted no page included.
C23_MetadataWritten ==
    variant = "advanced" /\ entry = "main" /\ pc = "done" /\ run_state = "Completed"
        => "metadata" \in outputs

\* C24: when compile_pdf fails, run() of advanced_scraper.py and of
\* scraper.py still ends in success: the documents written before are there,
\* the metadata is saved and the exit status is 0.
C24_PdfFailureNonFatal ==
    (/\ variant \in {"advanced", "scraper"} /\ entry = "main"
     /\ pc = "done" /\ run_state = "Completed"
     /\ variant = "advanced" => Len(pages) > 0
     /\ "pdf" \notin outputs)
    => (/\ "markdown" \in outputs
        /\ variant = "advanced" => "html" \in outputs
        /\ "metadata" \in outputs
        /\ exit_code = 0)

C24_Witness ==
    /\ variant = "advanced" /\ entry = "main" /\ pc = "done" /\ run_state = "Completed"
    /\ Len(pages) > 0
    /\ outputs = {"markdown", "html", "metadata"}

\* C25: a run of run() of advanced_scraper.py or of scraper.py that an
\* exception ended has a non-zero exit status.
C25_FatalExitsNonZero ==
    variant \in {"advanced", "scraper"} /\ entry = "main" /\ run_state = "Failed"
        => exit_code # 0

\* C27: whenever fetch_page runs for a URL, the URL is in the visited set.
C27_MarkedBeforeFetch == pc = "fetch" => url \in visited

\* C28: link discovery sees the page as it was fetched: content extraction
\* leaves the anchors of the parsed page in place, and a qualifying link is
\* discovered wherever it stands.
C28_DiscoverySeesFetchedPage ==
    /\ tree.step = "extracted" => tree.present
    /\ new_links # NoLinks => new_links = DiscoveredLinks(variant, current_url, anchor)


\* The resource a URL names.  To the program a URL is a string; the strings
\* U and U#fragment are two URLs of one resource.  URL 1 is read as base_url
\* with a fragment, every other URL as a resource of its own.
Resource(u) == IF u = 1 THEN base_url ELSE u

\* C29: no two pages of the collection are the same resource, that is, URLs
\* that differ in their fragment only are accepted as one page.
C29_FragmentsNormalised ==
    \A i, j \in 1 .. Len(pages) :
        Resource(pages[i].url) = Resource(pages[j].url) => i = j

\* C30: in fetch_page of advanced_scraper.py the wait after the failed attempt
\* k is 2^k seconds when another attempt follows, and there is none after the
\* last attempt, before which the call has waited 1 + 2 seconds in all.
C30_ExponentialBackoff ==
    [][variant = "advanced" /\ pc = "fetch" =>
          /\ attempt' = attempt + 1 =>
                /\ attempt + 1 < DefaultMaxRetries
                /\ gap' = 2 ^ attempt
                /\ waited' = waited + 2 ^ attempt
          /\ pc' = "loop" /\ html' = NoPage =>
                /\ attempt + 1 = DefaultMaxRetries
                /\ gap' = 0
                /\ waited = 1 + 2]_vars

C30_Witness ==
    /\ variant = "advanced" /\ pc = "fetch"
    /\ attempt = DefaultMaxRetries - 1
    /\ gap = 2 /\ waited = 3


\* C31: fetch_page of scraper.py starts with the requests fetch (attempt 0);
\* the Selenium fetch (attempt 1) follows only a requests fetch that returned
\* nothing, and nothing follows it: when it fails too, fetch_page returns
\* None and the loop goes on with the frontier, pages and marks as they were.
C31_FallbackOnce ==
    [][variant = "scraper" =>
          /\ pc = "loop" /\ pc' = "fetch" => attempt' = 0
          /\ pc = "fetch" => attempt \in {0, 1}
          /\ pc = "fetch" /\ attempt' # attempt /\ pc' = "fetch" =>
                attempt = 0 /\ attempt' = 1 /\ html' = NoPage
          /\ pc = "fetch" /\ pc' = "accept" => attempt' = attempt
          /\ pc = "fetch" /\ attempt = 1 => pc' # "fetch"
          /\ pc = "fetch" /\ pc' = "loop" =>
                /\ attempt = 1 /\ html' = NoPage
                /\ run_state' = "Running"
                /\ to_visit' = to_visit /\ pages' = pages /\ visited' = visited]_vars

\* Both fetches of a URL other than base_url have failed and the loop is
\* back at its head with another task in the frontier.
C31_Witness ==
    /\ variant = "scraper" /\ pc = "loop" /\ run_state = "Running"
    /\ html = NoPage /\ url # base_url /\ url \notin fetched_ok
    /\ fetch_calls[url] = 1
    /\ to_visit # <<>>


\* C32: the level extract_toc_links gives a link of a navigation container is
\* the number of ul and ol elements that are ancestors of the link and
\* descendants of that container, whether the container is a nav, an aside
\* or a div.
C32_LevelCountsListsInContainer ==
    link_level # -1 => link_level = NumLists(ancestors.chain, ancestors.container - 1)


\* The URLs of a list of tasks or of pages.
UrlsOf(s) == [i \in 1 .. Len(s) |-> s[i].url]

\* C33: the level of a link has no effect on the traversal.  A run over a
\* site whose links have levels and the run over the same site with every
\* link at level 0 fetch the same URLs in the same order, have the same
\* URLs waiting in the same order, and accept the same pages under the same
\* indices; so do, each agreeing with the flat run, any two runs whose sites
\* differ in the levels only.
C33_LevelNotTraversal ==
    levelled # NoRun =>
        /\ levelled.fetched = plain.fetched
        /\ UrlsOf(levelled.to_visit) = UrlsOf(plain.to_visit)
        /\ levelled.visited = plain.visited
        /\ UrlsOf(levelled.pages) = UrlsOf(plain.pages)
        /\ \A i \in 1 .. Len(levelled.pages) : levelled.pages[i].index = plain.pages[i].index
        /\ levelled.page_count = plain.page_count

\* Three pages are accepted, the later ones at different levels, where the
\* deeper link stood first on its page.
C33_Witness ==
    /\ levelled # NoRun
    /\ Len(levelled.pages) = 3
    /\ levelled.pages[2].level = 1 /\ levelled.pages[3].level = 0
    /\ plain.pages[2].level = 0
    /\ levelled.fetched # UrlsOf(levelled.pages)


\* The level of a heading element.
HeadingLevel(e) == CHOOSE k \in 1 .. 6 : HeadingTags[k] = e.tag

\* The levels of a sequence of heading blocks.
LevelsOf(blocks) == [i \in 1 .. Len(blocks) |-> blocks[i].level]

\* C34: the heading blocks content_to_markdown emits for the h2 .. h6
\* elements of a page stand in the order of the elements in the page, also
\* where a deeper heading precedes a shallower one.
C34_HeadingsInDocumentOrder ==
    md # NoMd =>
        LET found == find_all(main_content, {"h2", "h3", "h4", "h5", "h6"})
        IN  LevelsOf(OfKind(md, "heading")) = [i \in 1 .. Len(found) |-> HeadingLevel(found[i])]


\* The numbers 1 .. n of the n items that are children of each of the lists.
Numbering(lists) ==
    Concat([i \in 1 .. Len(lists) |->
              [k \in 1 .. Len(find_children(lists[i], {"li"})) |-> k]])

\* The numbers the item blocks carry.
OrdinalsOf(blocks) == [i \in 1 .. Len(blocks) |-> blocks[i].ordinal]

\* C35: the items a normalizer emits for an ordered list carry the numbers
\* 1, 2, .., n of the children of the list, from 1 again for every list; the
\* items of unordered lists carry none.
C35_OrderedItemsNumbered ==
    md # NoMd =>
        LET ordinals == OrdinalsOf(OfKind(md, "item"))
        IN  /\ SelectSeq(ordinals, LAMBDA o : o # 0) = Numbering(find_all(main_content, {"ol"}))
            /\ Len(SelectSeq(ordinals, LAMBDA o : o = 0))
                  = Len(Numbering(find_all(main_content, {"ul"})))


\* visited is the set of the URLs of the pages, and there are as many of
\* them as pages.
VisitedIsPages == visited = Range(PageUrls) /\ Cardinality(visited) = Len(pages)

C37_SectionIdsDistinct ==
    variant = "advanced" =>
        \A d \in {"markdown", "html"} :
            \A i, j \in 1 .. Len(docs[d].sections) :
                i # j => docs[d].sections[i].id # docs[d].sections[j].id

====
